---- MODULE Spec2Model ----
(***************************************************************************)
(* Model of app.py, the Streamlit diet diary: the script is re-executed    *)
(* top to bottom on every widget event.  Each action below is one widget   *)
(* event followed by the complete script run it triggers.                  *)
(*                                                                         *)
(* Strings are sequences of one-character strings.  Nutrient amounts are   *)
(* integers: thousandths in food_metadata, tenths in diet_logs.            *)
(***************************************************************************)
EXTENDS Integers, Sequences, FiniteSets, TLC

\* ---------------------------------------------------------------- bounds
MaxLen == 5        \* longest recognition text, parser scenario
MaxKwLen == 3      \* longest recognition text, lookup scenario
MaxRows == 6       \* most rows of food_metadata, lookup scenario
MaxDay == 2        \* last calendar day, main specification
MaxLogs == 2       \* most rows of diet_logs, main specification
TrendDays == 8     \* last calendar day, trend scenario
TrendLogs == 8     \* most rows of diet_logs, trend scenario

\* ------------------------------------------------------ program constants
Limit == 5         \* LIMIT 5 of the food_metadata query
TrendLimit == 7    \* LIMIT 7 of the chart query

\* ------------------------------------------------------------ characters
Space == " "
Newline == "\n"
Comma == ","
Alnum == {"a", "b", "A"}                      \* str.isalnum
Whitespace == {Space, Newline}                \* removed by str.strip
Alphabet == Alnum \cup Whitespace \cup {Comma, "!"}

RECURSIVE SeqsUpTo(_, _)
SeqsUpTo(S, n) ==
    IF n = 0 THEN {<<>>}
    ELSE LET shorter == SeqsUpTo(S, n - 1)
         IN shorter \cup {Append(s, c) : s \in {t \in shorter : Len(t) = n - 1}, c \in S}

\* ------------------------------------------------------- keyword parsing
RECURSIVE LStrip(_)
LStrip(s) == IF s # <<>> /\ Head(s) \in Whitespace THEN LStrip(Tail(s)) ELSE s

RECURSIVE RStrip(_)
RStrip(s) ==
    IF s # <<>> /\ s[Len(s)] \in Whitespace THEN RStrip(SubSeq(s, 1, Len(s) - 1)) ELSE s

\* str.strip()
Strip(s) == RStrip(LStrip(s))

\* str.replace('\n', ',')
Replace(s) == [i \in 1..Len(s) |-> IF s[i] = Newline THEN Comma ELSE s[i]]

\* str.split(','): the pieces between commas, empty pieces included
RECURSIVE Split(_)
Split(s) ==
    IF \A i \in 1..Len(s) : s[i] # Comma THEN <<s>>
    ELSE LET i == CHOOSE j \in 1..Len(s) : s[j] = Comma /\ \A k \in 1..(j - 1) : s[k] # Comma
         IN <<SubSeq(s, 1, i - 1)>> \o Split(SubSeq(s, i + 1, Len(s)))

RECURSIVE StripAll(_)
StripAll(ps) ==
    IF ps = <<>> THEN <<>>
    ELSE IF Strip(Head(ps)) # <<>> THEN <<Strip(Head(ps))>> \o StripAll(Tail(ps))
    ELSE StripAll(Tail(ps))

\* mutant: the line breaks are not turned into commas
ParseNoReplace(response_text) == StripAll(Split(Strip(response_text)))

\* raw_text = response.text.strip().replace('\n', ','); keywords = [...]
Parse(response_text) == StripAll(Split(Replace(Strip(response_text))))

\* ------------------------------------------------------ candidate lookup
\* "".join(filter(str.isalnum, word))
CleanWord(word) == SelectSeq(word, LAMBDA c : c \in Alnum)

\* LIKE compares ASCII letters without regard to case
Fold(c) == IF c = "A" THEN "a" ELSE c

\* food_name LIKE '%word%' for a word without wildcard characters
Like(food_name, word) ==
    \E i \in 1..(Len(food_name) - Len(word) + 1) :
        \A j \in 1..Len(word) : Fold(food_name[i + j - 1]) = Fold(word[j])

RECURSIVE Take(_, _)
Take(s, n) == IF n = 0 \/ s = <<>> THEN <<>> ELSE <<Head(s)>> \o Take(Tail(s), n - 1)

\* mutant: the query has no LIMIT
LookupNoLimit(word, table) ==
    SelectSeq(table, LAMBDA row : Like(row.food_name, CleanWord(word)))

\* SELECT * FROM food_metadata WHERE food_name LIKE :word LIMIT 5
Lookup(word, table) ==
    Take(SelectSeq(table, LAMBDA row : Like(row.food_name, CleanWord(word))), Limit)

\* pd.concat(all_results); empty frames are not appended and add no rows
RECURSIVE Concat(_, _)
Concat(keywords, table) ==
    IF keywords = <<>> THEN <<>>
    ELSE Lookup(Head(keywords), table) \o Concat(Tail(keywords), table)

RECURSIVE KeepLast(_)
\* mutant: drop_duplicates(keep='last')
KeepLast(df) ==
    IF df = <<>> THEN <<>>
    ELSE IF \E i \in 2..Len(df) : df[i].food_name = Head(df).food_name
         THEN KeepLast(Tail(df))
         ELSE <<Head(df)>> \o KeepLast(Tail(df))

RECURSIVE DropDuplicates(_)
\* drop_duplicates(subset=['food_name']): the first row of each name stays
DropDuplicates(df) ==
    IF df = <<>> THEN <<>>
    ELSE LET n == Len(df)
             init == DropDuplicates(SubSeq(df, 1, n - 1))
         IN IF \E i \in 1..(n - 1) : df[i].food_name = df[n].food_name
            THEN init
            ELSE Append(init, df[n])

\* mutant: an empty search falls back to the head of the table
CandidatesFallback(keywords, table) ==
    IF Concat(keywords, table) = <<>> THEN Take(table, Limit)
    ELSE DropDuplicates(Concat(keywords, table))

\* all_results ... st.session_state["result_df"]
Candidates(keywords, table) ==
    IF Concat(keywords, table) # <<>> THEN DropDuplicates(Concat(keywords, table))
    ELSE <<>>

\* ------------------------------------------------------------- diet_logs
\* round(float(x), 1): thousandths to tenths.  A tie is decided by the binary
\* value; x.25 and x.75 are exact and go to the even digit.  The other ties
\* (x.05, x.15, ...) are not exact in binary and do not occur in FoodRows.
Round1(m) ==
    LET q == m \div 100
        r == m % 100
    IN IF r < 50 THEN q
       ELSE IF r > 50 THEN q + 1
       ELSE IF q % 2 = 0 THEN q ELSE q + 1

\* mutant: a same-day row of the same user and food is updated in place
InsertLogMerge(logs, uid, best_match, now) ==
    IF \E i \in 1..Len(logs) : /\ logs[i].user_id = uid
                               /\ logs[i].food_name = best_match.food_name
                               /\ logs[i].created_at = now
    THEN LET i == CHOOSE j \in 1..Len(logs) : /\ logs[j].user_id = uid
                                              /\ logs[j].food_name = best_match.food_name
                                              /\ logs[j].created_at = now
         IN [logs EXCEPT ![i].calories = @ + Round1(best_match.calories)]
    ELSE Append(logs, [user_id |-> uid, food_name |-> best_match.food_name,
                       calories |-> Round1(best_match.calories),
                       protein |-> Round1(best_match.protein),
                       fat |-> Round1(best_match.fat),
                       carbs |-> Round1(best_match.carbs),
                       created_at |-> now])

\* INSERT INTO diet_logs (...) VALUES (...); created_at defaults to the local
\* time of the insert; the row id is the position in the sequence
InsertLog(logs, uid, best_match, now) ==
    Append(logs, [user_id |-> uid, food_name |-> best_match.food_name,
                  calories |-> Round1(best_match.calories),
                  protein |-> Round1(best_match.protein),
                  fat |-> Round1(best_match.fat),
                  carbs |-> Round1(best_match.carbs),
                  created_at |-> now])

\* SUM(column) over a selection of rows; the caller handles the empty selection
RECURSIVE Sum(_, _)
Sum(rows, column) ==
    IF rows = <<>> THEN 0 ELSE Head(rows)[column] + Sum(Tail(rows), column)

\* mutant: the query of the first version, without user_id = :uid
TodaySummaryAllUsers(logs, uid, now) ==
    LET rows == SelectSeq(logs, LAMBDA r : r.created_at = now)
    IN [cal |-> Sum(rows, "calories"), prot |-> Sum(rows, "protein")]

\* summary_query and the two sidebar metrics; SUM over no row is NULL and is
\* shown as 0 by "or 0"
TodaySummary(logs, uid, now) ==
    LET rows == SelectSeq(logs, LAMBDA r : r.created_at = now /\ r.user_id = uid)
    IN [cal |-> IF rows = <<>> THEN 0 ELSE Sum(rows, "calories"),
        prot |-> IF rows = <<>> THEN 0 ELSE Sum(rows, "protein")]

\* ratio_query; the pie is drawn when the three sums add up to more than 0
Ratio(logs, uid, now) ==
    LET rows == SelectSeq(logs, LAMBDA r : r.created_at = now /\ r.user_id = uid)
        total == Sum(rows, "carbs") + Sum(rows, "protein") + Sum(rows, "fat")
    IN [pie |-> total > 0,
        carbs |-> Sum(rows, "carbs"), protein |-> Sum(rows, "protein"),
        fat |-> Sum(rows, "fat")]

\* GROUP BY DATE(created_at) ORDER BY date DESC
RECURSIVE GroupDesc(_, _)
GroupDesc(rows, dates) ==
    IF dates = {} THEN <<>>
    ELSE LET d == CHOOSE x \in dates : \A y \in dates : y <= x
         IN <<[date |-> d,
               daily_cal |-> Sum(SelectSeq(rows, LAMBDA r : r.created_at = d), "calories")]>>
            \o GroupDesc(rows, dates \ {d})

\* chart_df.sort_values('date')
RECURSIVE SortValues(_)
SortValues(df) ==
    IF df = <<>> THEN <<>>
    ELSE LET i == CHOOSE j \in 1..Len(df) : \A k \in 1..Len(df) : df[j].date <= df[k].date
         IN <<df[i]>> \o SortValues(SubSeq(df, 1, i - 1) \o SubSeq(df, i + 1, Len(df)))

\* mutant: the days are limited oldest first
ChartOldest(logs, uid) ==
    LET rows == SelectSeq(logs, LAMBDA r : r.user_id = uid)
        dates == {rows[i].created_at : i \in 1..Len(rows)}
    IN Take(SortValues(GroupDesc(rows, dates)), TrendLimit)

\* chart_query with LIMIT 7, then the ascending sort of the line chart
Chart(logs, uid) ==
    LET rows == SelectSeq(logs, LAMBDA r : r.user_id = uid)
        dates == {rows[i].created_at : i \in 1..Len(rows)}
    IN SortValues(Take(GroupDesc(rows, dates), TrendLimit))

\* ------------------------------------------------------------------ state
VARIABLES
    food_metadata,          \* table food_metadata, in rowid order
    diet_logs,              \* table diet_logs, in id order
    today,                  \* DATE('now', 'localtime'), as a day number
    choice,                 \* sidebar selectbox: "login" or "register"
    authentication_status,  \* st.session_state entry: "None", "True", "False"
    username,               \* st.session_state entry
    uploaded_file,          \* value of the file uploader widget
    session_state,          \* entries result_df, last_uploaded, keywords
    selected,               \* position chosen in the radio widget
    screen,                 \* what the last script run left on the page
    calls,                  \* history: recognition call and inserts of the last event
    result_src,             \* history: image the stored result_df was computed from
    clicks                  \* history: one entry per click on the commit button

vars == <<food_metadata, diet_logs, today, choice, authentication_status, username,
          uploaded_file, session_state, selected, screen, calls, result_src, clicks>>

Users == {"u1", "u2"}
FileNames == {"f1.jpg", "f2.jpg"}
Images == {"img1", "img2"}
Files == [name : FileNames, img : Images]
NoFile == [name |-> "None", img |-> "None"]
NoSession ==
    [has_result_df |-> FALSE, result_df |-> <<>>, last_uploaded |-> "None", keywords |-> <<>>]

RowAb == [food_name |-> <<"A", "b">>, calories |-> 452666, protein |-> 20250,
          fat |-> 15000, carbs |-> 30040]
Rowab == [food_name |-> <<"a", "b">>, calories |-> 100000, protein |-> 0,
          fat |-> 0, carbs |-> 25000]
Rowb == [food_name |-> <<"b">>, calories |-> 52340, protein |-> 1750,
         fat |-> 300, carbs |-> 12000]
FoodRows == {RowAb, Rowab, Rowb}
MainTable == <<RowAb, Rowb>>

\* recognition responses of the main specification: two candidates, no
\* keyword at all, a keyword without a match
MainTexts == {<<"b">>, <<Space, Comma, Newline>>, <<"a", "a">>}
LookupAlphabet == {"a", "b", Comma, "!"}

Quota == [kind |-> "quota", text |-> <<>>]      \* exception text contains "429"
Failure == [kind |-> "error", text |-> <<>>]    \* any other exception
Outcomes(texts) == {[kind |-> "ok", text |-> t] : t \in texts} \cup {Quota, Failure}

\* ------------------------------------------------------------- script run
\* "result_df" not in st.session_state or last_uploaded != uploaded_file.name
NeedsPipeline(ss, up) == ~ss.has_result_df \/ ss.last_uploaded # up.name

\* mutant: the upload is marked as processed although the call failed
OnRecognitionErrorMarked(ss, up) ==
    [ss EXCEPT !.has_result_df = TRUE, !.last_uploaded = up.name]

\* except branch: a message and st.stop(); the session entries are not written
OnRecognitionError(ss, up) == ss

\* the three session entries written at the end of the analysis
StoreResult(up, text, table) ==
    [has_result_df |-> TRUE,
     result_df |-> Candidates(Parse(text), table),
     last_uploaded |-> up.name,
     keywords |-> Parse(text)]

\* One execution of the script for the widget values given; o is what the
\* recognition call does if this run makes it.  A click on the commit button
\* ends in st.rerun(), whose run shows the candidates again.
RunScript(ch, auth, user, up, clicked, sel, o) ==
    LET quiet == [ss |-> session_state, logs |-> diet_logs, src |-> result_src,
                  sel |-> sel, recognition |-> "none", text |-> <<>>, inserts |-> 0,
                  screen |-> "register"]
    IN IF ch = "register" THEN quiet
       ELSE IF auth = "False" THEN [quiet EXCEPT !.screen = "login_error"]
       ELSE IF auth = "None" THEN [quiet EXCEPT !.screen = "login_info"]
       ELSE IF up = NoFile THEN [quiet EXCEPT !.screen = "upload_prompt"]
       ELSE IF NeedsPipeline(session_state, up) /\ o.kind # "ok"
            THEN [quiet EXCEPT !.ss = OnRecognitionError(session_state, up),
                               !.recognition = o.kind, !.screen = o.kind]
       ELSE LET ran == NeedsPipeline(session_state, up)
                ss1 == IF ran THEN StoreResult(up, o.text, food_metadata) ELSE session_state
                sel1 == IF ran THEN 1 ELSE sel
                shown == [quiet EXCEPT !.ss = ss1,
                                       !.src = IF ran THEN up.img ELSE result_src,
                                       !.sel = sel1,
                                       !.recognition = IF ran THEN "ok" ELSE "none",
                                       !.text = IF ran THEN o.text ELSE <<>>]
            IN IF ss1.result_df = <<>> THEN [shown EXCEPT !.screen = "no_results"]
               ELSE IF clicked
                    THEN [shown EXCEPT !.logs = InsertLog(diet_logs, user,
                                                          ss1.result_df[sel1], today),
                                       !.inserts = 1, !.screen = "candidates"]
               ELSE [shown EXCEPT !.screen = "candidates"]

Apply(r) ==
    /\ session_state' = r.ss
    /\ diet_logs' = r.logs
    /\ result_src' = r.src
    /\ selected' = r.sel
    /\ calls' = [recognition |-> r.recognition, text |-> r.text, inserts |-> r.inserts]
    /\ screen' = r.screen

LoggedIn == choice = "login" /\ authentication_status = "True"

\* what the recognition can do in a run with file up; a run that does not
\* reach the call has nothing to choose
OutcomesFor(up, texts) ==
    IF LoggedIn /\ up # NoFile /\ NeedsPipeline(session_state, up)
    THEN Outcomes(texts) ELSE {Quota}

\* ---------------------------------------------------------------- actions
InitWith(table) ==
    /\ food_metadata = table
    /\ diet_logs = <<>>
    /\ today = 1
    /\ choice = "login"
    /\ authentication_status = "None"
    /\ username = "None"
    /\ uploaded_file = NoFile
    /\ session_state = NoSession
    /\ selected = 1
    /\ screen = "login_info"
    /\ calls = [recognition |-> "none", text |-> <<>>, inserts |-> 0]
    /\ result_src = "None"
    /\ clicks = <<>>

Init == InitWith(MainTable)

\* the sidebar menu changes; a page without the uploader drops its file
ChooseMenu(c) ==
    /\ c # choice
    /\ choice' = c
    /\ uploaded_file' = NoFile
    /\ Apply(RunScript(c, authentication_status, username, NoFile, FALSE, selected, Quota))
    /\ UNCHANGED <<food_metadata, today, authentication_status, username, clicks>>

\* authenticator.login accepts the credentials of user u
Login(u) ==
    /\ choice = "login"
    /\ authentication_status # "True"
    /\ authentication_status' = "True"
    /\ username' = u
    /\ Apply(RunScript(choice, "True", u, uploaded_file, FALSE, selected, Quota))
    /\ UNCHANGED <<food_metadata, today, choice, uploaded_file, clicks>>

\* authenticator.login rejects the credentials
LoginRejected ==
    /\ choice = "login"
    /\ authentication_status # "True"
    /\ authentication_status' = "False"
    /\ username' = "None"
    /\ Apply(RunScript(choice, "False", "None", uploaded_file, FALSE, selected, Quota))
    /\ UNCHANGED <<food_metadata, today, choice, uploaded_file, clicks>>

\* authenticator.logout; the next page has no uploader
Logout ==
    /\ LoggedIn
    /\ authentication_status' = "None"
    /\ username' = "None"
    /\ uploaded_file' = NoFile
    /\ Apply(RunScript(choice, "None", "None", NoFile, FALSE, selected, Quota))
    /\ UNCHANGED <<food_metadata, today, choice, clicks>>

\* a file is put into the uploader
UploadFile(f, o) ==
    /\ LoggedIn
    /\ uploaded_file' = f
    /\ Apply(RunScript(choice, authentication_status, username, f, FALSE, selected, o))
    /\ UNCHANGED <<food_metadata, today, choice, authentication_status, username, clicks>>

\* the file is taken out of the uploader
RemoveFile ==
    /\ LoggedIn
    /\ uploaded_file # NoFile
    /\ uploaded_file' = NoFile
    /\ Apply(RunScript(choice, authentication_status, username, NoFile, FALSE, selected, Quota))
    /\ UNCHANGED <<food_metadata, today, choice, authentication_status, username, clicks>>

\* the script runs again with the widgets as they are
Rerun(o) ==
    /\ Apply(RunScript(choice, authentication_status, username, uploaded_file, FALSE,
                       selected, o))
    /\ UNCHANGED <<food_metadata, today, choice, authentication_status, username,
                   uploaded_file, clicks>>

\* another option of the radio widget is chosen
SelectOption(i) ==
    /\ screen = "candidates"
    /\ i \in 1..Len(session_state.result_df)
    /\ i # selected
    /\ Apply(RunScript(choice, authentication_status, username, uploaded_file, FALSE, i, Quota))
    /\ UNCHANGED <<food_metadata, today, choice, authentication_status, username,
                   uploaded_file, clicks>>

\* the commit button is clicked
ClickCommit(maxLogs) ==
    /\ screen = "candidates"
    /\ Len(diet_logs) < maxLogs
    /\ clicks' = Append(clicks, [user |-> username, day |-> today])
    /\ Apply(RunScript(choice, authentication_status, username, uploaded_file, TRUE,
                       selected, Quota))
    /\ UNCHANGED <<food_metadata, today, choice, authentication_status, username,
                   uploaded_file>>

\* midnight passes
Tick(maxDay) ==
    /\ today < maxDay
    /\ today' = today + 1
    /\ UNCHANGED <<food_metadata, diet_logs, choice, authentication_status, username,
                   uploaded_file, session_state, selected, screen, calls, result_src,
                   clicks>>

Next ==
    \/ \E c \in {"login", "register"} : ChooseMenu(c)
    \/ \E u \in Users : Login(u)
    \/ LoginRejected
    \/ Logout
    \/ \E f \in Files : \E o \in OutcomesFor(f, MainTexts) : UploadFile(f, o)
    \/ RemoveFile
    \/ \E o \in OutcomesFor(uploaded_file, MainTexts) : Rerun(o)
    \/ \E i \in 1..Limit : SelectOption(i)
    \/ ClickCommit(MaxLogs)
    \/ Tick(MaxDay)

Spec == Init /\ [][Next]_vars

\* ------------------------------------------------------ parser scenario
\* One upload by one user, the recognition answering any text of at most
\* MaxLen characters.
NextParse ==
    \/ Login("u1")
    \/ /\ uploaded_file = NoFile
       /\ \E t \in SeqsUpTo(Alphabet, MaxLen) :
              UploadFile([name |-> "f1.jpg", img |-> "img1"], [kind |-> "ok", text |-> t])

SpecParse == Init /\ [][NextParse]_vars

\* ------------------------------------------------------ lookup scenario
\* One upload by one user over any food_metadata table of at most MaxRows
\* rows, the recognition answering any text of at most MaxKwLen characters.
InitLookup == \E table \in SeqsUpTo(FoodRows, MaxRows) : InitWith(table)

NextLookup ==
    \/ Login("u1")
    \/ /\ uploaded_file = NoFile
       /\ \E t \in SeqsUpTo(LookupAlphabet, MaxKwLen) :
              UploadFile([name |-> "f1.jpg", img |-> "img1"], [kind |-> "ok", text |-> t])

SpecLookup == InitLookup /\ [][NextLookup]_vars

\* ------------------------------------------------------- trend scenario
\* User u1 has uploaded a photo that was recognised as "b" and now commits
\* the first candidate again and again while the days pass.
TrendFile == [name |-> "f1.jpg", img |-> "img1"]

InitTrend ==
    /\ food_metadata = MainTable
    /\ diet_logs = <<>>
    /\ today = 1
    /\ choice = "login"
    /\ authentication_status = "True"
    /\ username = "u1"
    /\ uploaded_file = TrendFile
    /\ session_state = StoreResult(TrendFile, <<"b">>, MainTable)
    /\ selected = 1
    /\ screen = "candidates"
    /\ calls = [recognition |-> "ok", text |-> <<"b">>, inserts |-> 0]
    /\ result_src = "img1"
    /\ clicks = <<>>

NextTrend ==
    \/ ClickCommit(TrendLogs)
    \/ Tick(TrendDays)

SpecTrend == InitTrend /\ [][NextTrend]_vars

\* ------------------------------------------------------------ properties
Min(S) == CHOOSE x \in S : \A y \in S : x <= y
Max(S) == CHOOSE x \in S : \A y \in S : y <= x
Kth(S, k) == CHOOSE p \in S : Cardinality({q \in S : q < p}) = k - 1

\* positions of the separators of a text, with both ends
Seps(text) == {0, Len(text) + 1} \cup {i \in 1..Len(text) : text[i] \in {Comma, Newline}}
PieceAt(text, p) == SubSeq(text, p + 1, Min({q \in Seps(text) : q > p}) - 1)
Trimmed(piece) ==
    LET ink == {i \in 1..Len(piece) : piece[i] \notin Whitespace}
    IN IF ink = {} THEN <<>> ELSE SubSeq(piece, Min(ink), Max(ink))
KeywordStarts(text) ==
    {p \in Seps(text) \ {Len(text) + 1} : Trimmed(PieceAt(text, p)) # <<>>}

\* C1: after a successful recognition the keyword list is exactly the
\* pieces of the response text between commas and line breaks, each trimmed,
\* the empty ones dropped, in their order; no keyword is empty.
C1_KeywordsAreTrimmedPieces ==
    calls.recognition = "ok" =>
        LET kws == session_state.keywords
            starts == KeywordStarts(calls.text)
        IN /\ Len(kws) = Cardinality(starts)
           /\ \A k \in 1..Len(kws) :
                  /\ kws[k] = Trimmed(PieceAt(calls.text, Kth(starts, k)))
                  /\ kws[k] # <<>>

\* a text with a line break, a blank and an empty piece gave two keywords
C1_Witness ==
    /\ calls.recognition = "ok"
    /\ \E i \in 1..Len(calls.text) : calls.text[i] = Newline
    /\ \E i \in 1..Len(calls.text) : calls.text[i] = Space
    /\ Len(session_state.keywords) = 2
    /\ Cardinality(Seps(calls.text)) > 3

Matches(word, table) == {i \in 1..Len(table) : Like(table[i].food_name, CleanWord(word))}

\* C2: no keyword contributes more than 5 rows, and the stored candidate
\* list never holds two rows of the same food name.
C2_CappedAndDistinct ==
    calls.recognition = "ok" =>
        LET kws == session_state.keywords
            df == session_state.result_df
        IN /\ \A k \in 1..Len(kws) : Len(Lookup(kws[k], food_metadata)) <= Limit
           /\ Len(df) <= Limit * Len(kws)
           /\ \A i, j \in 1..Len(df) : i # j => df[i].food_name # df[j].food_name

\* a keyword matched more than 5 rows and two keywords matched the same row
C2_Witness ==
    /\ calls.recognition = "ok"
    /\ \E k \in 1..Len(session_state.keywords) :
           Cardinality(Matches(session_state.keywords[k], food_metadata)) > Limit
    /\ \E k, l \in 1..Len(session_state.keywords) :
           /\ k # l
           /\ Matches(session_state.keywords[k], food_metadata)
                  \cap Matches(session_state.keywords[l], food_metadata) # {}
    /\ Len(session_state.result_df) >= 2

\* C3: every candidate's name contains a non-empty keyword in the form used
\* for the lookup; an empty pattern never makes a row a candidate.
C3_CandidateContainsKeyword ==
    calls.recognition = "ok" =>
        \A i \in 1..Len(session_state.result_df) :
            \E k \in 1..Len(session_state.keywords) :
                /\ CleanWord(session_state.keywords[k]) # <<>>
                /\ Like(session_state.result_df[i].food_name,
                        CleanWord(session_state.keywords[k]))

\* C4: the result presented for the current upload was computed from the
\* image that is uploaded now.
C4_ResultOfCurrentImage ==
    screen \in {"candidates", "no_results"} => result_src = uploaded_file.img

\* the rows of diet_logs committed while user u was authenticated
OwnRows(u) ==
    LET idx == {i \in 1..Len(diet_logs) : clicks[i].user = u}
    IN [k \in 1..Cardinality(idx) |-> diet_logs[Kth(idx, k)]]

\* C5: every row carries the user authenticated at the click, and the three
\* summary views of a user are the same as over that user's rows alone.
C5_UserScoping ==
    /\ Len(diet_logs) = Len(clicks)
    /\ \A i \in 1..Len(diet_logs) : diet_logs[i].user_id = clicks[i].user
    /\ \A u \in Users :
           /\ TodaySummary(diet_logs, u, today) = TodaySummary(OwnRows(u), u, today)
           /\ Chart(diet_logs, u) = Chart(OwnRows(u), u)
           /\ Ratio(diet_logs, u, today) = Ratio(OwnRows(u), u, today)

\* both users have committed today, with different totals
C5_Witness ==
    /\ TodaySummary(diet_logs, "u1", today).cal > 0
    /\ TodaySummary(diet_logs, "u2", today).cal > 0
    /\ TodaySummary(diet_logs, "u1", today).cal # TodaySummary(diet_logs, "u2", today).cal

RECURSIVE CalSum(_)
CalSum(idx) ==
    IF idx = {} THEN 0
    ELSE LET i == CHOOSE x \in idx : TRUE
         IN diet_logs[i].calories + CalSum(idx \ {i})

TodayRows(u) ==
    {i \in 1..Len(diet_logs) : diet_logs[i].user_id = u /\ diet_logs[i].created_at = today}

\* C6: a click appends exactly one row and leaves the earlier rows as they
\* are, nothing else changes diet_logs, and a user's total calories of today
\* are the sum over all of that user's rows of today.
C6_AppendOnly ==
    /\ [](\A u \in Users : TodaySummary(diet_logs, u, today).cal = CalSum(TodayRows(u)))
    /\ [][IF clicks' # clicks
          THEN /\ Len(diet_logs') = Len(diet_logs) + 1
               /\ SubSeq(diet_logs', 1, Len(diet_logs)) = diet_logs
          ELSE diet_logs' = diet_logs]_vars

\* two rows of the same user, food and day; the total is the sum of both
C6_Witness ==
    \E i, j \in 1..Len(diet_logs) :
        /\ i < j
        /\ diet_logs[i].user_id = diet_logs[j].user_id
        /\ diet_logs[i].food_name = diet_logs[j].food_name
        /\ diet_logs[i].created_at = today
        /\ diet_logs[j].created_at = today
        /\ TodaySummary(diet_logs, diet_logs[i].user_id, today).cal
               = diet_logs[i].calories + diet_logs[j].calories

Failed == {"quota", "error"}

\* C7: a failed recognition call ends the run with its message, changes
\* neither diet_logs nor the session entries, and leaves the analysis due:
\* the next run with the same file calls the recognition again.
C7_FailureChangesNothing ==
    /\ [][calls'.recognition \in Failed =>
              /\ diet_logs' = diet_logs
              /\ session_state' = session_state
              /\ screen' = calls'.recognition
              /\ NeedsPipeline(session_state', uploaded_file')]_vars
    /\ [][(calls.recognition \in Failed
              /\ UNCHANGED <<uploaded_file, choice, authentication_status, today>>)
              => calls'.recognition # "none"]_vars

\* the call failed for a new file while an earlier result was stored
C7_Witness ==
    /\ calls.recognition \in Failed
    /\ session_state.has_result_df
    /\ session_state.result_df # <<>>
    /\ session_state.last_uploaded # uploaded_file.name
    /\ Len(diet_logs) > 0

NoMatch ==
    \A k \in 1..Len(session_state.keywords) :
        Matches(session_state.keywords[k], food_metadata) = {}

Dates(u) == {diet_logs[i].created_at : i \in {j \in 1..Len(diet_logs) : diet_logs[j].user_id = u}}

\* C9: the trend of a user with d distinct dates has min(d, 7) rows, one
\* for each of the most recent dates, oldest first, each with the sum of the
\* calories of that date.
C9_Trend ==
    \A u \in Users :
        LET ch == Chart(diet_logs, u)
            shown == {ch[i].date : i \in 1..Len(ch)}
        IN /\ Len(ch) = IF Cardinality(Dates(u)) < TrendLimit
                        THEN Cardinality(Dates(u)) ELSE TrendLimit
           /\ \A i, j \in 1..Len(ch) : i < j => ch[i].date < ch[j].date
           /\ shown \subseteq Dates(u)
           /\ \A x \in Dates(u) \ shown : \A y \in shown : x < y
           /\ \A i \in 1..Len(ch) :
                  ch[i].daily_cal =
                      CalSum({j \in 1..Len(diet_logs) :
                                  /\ diet_logs[j].user_id = u
                                  /\ diet_logs[j].created_at = ch[i].date})

\* the user has rows on more than 7 dates
C9_Witness ==
    /\ Cardinality(Dates("u1")) > TrendLimit
    /\ Len(Chart(diet_logs, "u1")) = TrendLimit

\* C10: the candidate list is the concatenation of the per-keyword results
\* in keyword order without the rows whose name occurred earlier.
C10_MergeOrder ==
    calls.recognition = "ok" =>
        LET cat == Concat(session_state.keywords, food_metadata)
            firsts == {p \in 1..Len(cat) :
                          \A q \in 1..(p - 1) : cat[q].food_name # cat[p].food_name}
            df == session_state.result_df
        IN /\ Len(df) = Cardinality(firsts)
           /\ \A k \in 1..Len(df) : df[k] = cat[Kth(firsts, k)]

\* the first candidate was found again by the second keyword
C10_Witness ==
    /\ calls.recognition = "ok"
    /\ Len(session_state.keywords) >= 2
    /\ Len(session_state.result_df) >= 2
    /\ \E i \in Matches(session_state.keywords[2], food_metadata) :
           food_metadata[i] = session_state.result_df[1]
    /\ session_state.keywords[1] # session_state.keywords[2]

====
